---- MODULE Spec2Model ----
(***************************************************************************)
(* Model of src/utils/prepareModules.js: the module-preparation pipeline   *)
(* of vuems-ts (relation validation, alias resolution, plugin              *)
(* registration, CSS aggregation) run by prepareModules under Promise.all, *)
(* on the JavaScript single-threaded run-to-completion scheduler with a    *)
(* FIFO microtask queue.                                                   *)
(*                                                                         *)
(* JavaScript strings that the code transforms (module names, paths, path  *)
(* fragments) are sequences of one-character strings; alias keys and the   *)
(* fixed confirmation messages, which the code never inspects, are TLA+    *)
(* strings.  An absent field of a configuration record is a field that is  *)
(* not in the record's DOMAIN.                                             *)
(***************************************************************************)
EXTENDS Integers, Sequences, FiniteSets, TLC

VARIABLES
    configurations,       \* params.configurations (never written by the code)
    allModules,           \* options.allModules
    verbose,              \* options.verbose
    before,               \* host state when prepareModules was called
    css,                  \* this.options.css
    resolveAlias,         \* config.resolve.alias of the host build configuration
    plugins,              \* registrations received by this.addPlugin
    extend,               \* TRUE once this.extendBuild holds the transform
    sortedConfigurations, \* closure variable of setAliases
    transform,            \* the build transform: "none", "ok" or "threw"
    written,              \* the transform's local `alias` object
    promises,             \* the four promises handed to Promise.all
    all,                  \* the promise returned by Promise.all
    result,               \* the promise returned by prepareModules
    jobs,                 \* microtask queue
    pc,                   \* position of the synchronous code of prepareModules
    logCalls,             \* invocations of the logging collaborator
    console,              \* lines the logging collaborator printed
    failed                \* sub-operations in the order in which they rejected

vars == <<configurations, allModules, verbose, before, css, resolveAlias, plugins,
          extend, sortedConfigurations, transform, written, promises, all, result,
          jobs, pc, logCalls, console, failed>>

inputs == <<configurations, allModules, verbose, before>>

----------------------------------------------------------------------------
(* Bounds and constants *)

\* largest explicit small `order` value of a module configuration
MaxOrder == 2

\* helpers/constants.js (not among the sources): the default order
DEFAULT_ORDER == 1000

----------------------------------------------------------------------------
(* JavaScript values *)

\* `undefined` where a string is expected (a module without `name`)
Undefined == <<"undefined">>

Has(rec, field) == field \in DOMAIN rec

\* JavaScript truthiness of a string
Truthy(s) == s # Undefined /\ s # <<>>

NameOf(config) == IF Has(config, "name") THEN config.name ELSE Undefined

\* a settled value: a confirmation message or an error
Message(text) == [kind |-> text, module |-> <<>>, relation |-> <<>>]

RelationError(name, relation) ==
    [kind |-> "RelationError", module |-> name, relation |-> relation]

\* dereferencing the absent result of allModules.find, or of an undefined name
TypeError(name, where) ==
    [kind |-> "TypeError", module |-> name, relation |-> where]

HostError(where) == [kind |-> "HostError", module |-> <<>>, relation |-> where]

Pending == [st |-> "pending", val |-> Message("")]
Fulfilled(v) == [st |-> "fulfilled", val |-> v]
Rejected(e) == [st |-> "rejected", val |-> e]

----------------------------------------------------------------------------
(* path.join (posix) and String.prototype.replace(/\/$/g, '') *)

RECURSIVE SplitFrom(_, _, _)
SplitFrom(s, i, cur) ==
    IF i > Len(s) THEN <<cur>>
    ELSE IF s[i] = "/" THEN <<cur>> \o SplitFrom(s, i + 1, <<>>)
    ELSE SplitFrom(s, i + 1, Append(cur, s[i]))

RECURSIVE NormalizeSegments(_, _, _)
NormalizeSegments(segs, acc, allowAboveRoot) ==
    IF segs = <<>> THEN acc
    ELSE LET h == Head(segs)
             t == Tail(segs)
         IN  IF h = <<>> \/ h = <<".">>
             THEN NormalizeSegments(t, acc, allowAboveRoot)
             ELSE IF h = <<".", ".">>
             THEN IF acc # <<>> /\ acc[Len(acc)] # <<".", ".">>
                  THEN NormalizeSegments(t, SubSeq(acc, 1, Len(acc) - 1), allowAboveRoot)
                  ELSE IF allowAboveRoot
                  THEN NormalizeSegments(t, Append(acc, h), allowAboveRoot)
                  ELSE NormalizeSegments(t, acc, allowAboveRoot)
             ELSE NormalizeSegments(t, Append(acc, h), allowAboveRoot)

RECURSIVE JoinWith(_, _)
JoinWith(parts, sep) ==
    IF parts = <<>> THEN <<>>
    ELSE IF Len(parts) = 1 THEN parts[1]
    ELSE parts[1] \o sep \o JoinWith(Tail(parts), sep)

Normalize(p) ==
    IF p = <<>> THEN <<".">>
    ELSE LET isAbsolute == p[1] = "/"
             trailingSeparator == p[Len(p)] = "/"
             body == JoinWith(NormalizeSegments(SplitFrom(p, 1, <<>>), <<>>,
                                                ~isAbsolute), <<"/">>)
         IN  IF body = <<>>
             THEN IF isAbsolute THEN <<"/">>
                  ELSE IF trailingSeparator THEN <<".", "/">> ELSE <<".">>
             ELSE (IF isAbsolute THEN <<"/">> ELSE <<>>) \o body
                  \o (IF trailingSeparator THEN <<"/">> ELSE <<>>)

PathJoin(args) ==
    LET joined == JoinWith(SelectSeq(args, LAMBDA a : a # <<>>), <<"/">>)
    IN  IF joined = <<>> THEN <<".">> ELSE Normalize(joined)

\* the path as join returned it
StripTrailingSeparator_Keep(s) == s

\* .replace(/\/$/g, '')
StripTrailingSeparator(s) ==
    IF s # <<>> /\ s[Len(s)] = "/" THEN SubSeq(s, 1, Len(s) - 1) ELSE s

\* allModules.find((m) => m.name === name): the index found, 0 for undefined
RECURSIVE FindFrom(_, _, _)
FindFrom(list, name, i) ==
    IF i > Len(list) THEN 0
    ELSE IF list[i].name = name THEN i
    ELSE FindFrom(list, name, i + 1)

FindModule(list, name) == FindFrom(list, name, 1)

\* join(allModules.find(...).path, fragment).replace(/\/$/g, '')
ResolvePath(list, name, fragment) ==
    StripTrailingSeparator(PathJoin(<<list[FindModule(list, name)].path, fragment>>))

----------------------------------------------------------------------------
(* checkModulesRelations, lines 12-30 *)

\* configurations.find((c) => c.name === relation)
ModuleExists(configs, relation) ==
    \E i \in 1..Len(configs) : NameOf(configs[i]) = relation

\* the test of lines 17-20 without its `relation &&` guard
RelationMissing_Strict(configs, relation) == ~ModuleExists(configs, relation)

\* the test of lines 17-20
RelationMissing(configs, relation) ==
    Truthy(relation) /\ ~ModuleExists(configs, relation)

\* the loops of lines 14-27 testing only the first relation of each module
RECURSIVE FirstMissingRelation_FirstEntryOnly(_, _, _)
FirstMissingRelation_FirstEntryOnly(configs, i, j) ==
    IF i > Len(configs) THEN <<0, 0>>
    ELSE IF ~Has(configs[i], "relations") \/ configs[i].relations = <<>>
    THEN FirstMissingRelation_FirstEntryOnly(configs, i + 1, 1)
    ELSE IF RelationMissing(configs, configs[i].relations[1]) THEN <<i, 1>>
    ELSE FirstMissingRelation_FirstEntryOnly(configs, i + 1, 1)

\* the nested forEach of lines 14-27: <<i, j>> of the first relation that
\* throws, <<0, 0>> when the loops run to their end
RECURSIVE FirstMissingRelation(_, _, _)
FirstMissingRelation(configs, i, j) ==
    IF i > Len(configs) THEN <<0, 0>>
    ELSE IF ~Has(configs[i], "relations") \/ j > Len(configs[i].relations)
    THEN FirstMissingRelation(configs, i + 1, 1)
    ELSE IF RelationMissing(configs, configs[i].relations[j]) THEN <<i, j>>
    ELSE FirstMissingRelation(configs, i, j + 1)

\* the promise checkModulesRelations returns
CheckModulesRelationsResult(configs) ==
    LET at == FirstMissingRelation(configs, 1, 1)
    IN  IF at = <<0, 0>>
        THEN Fulfilled(Message("All relations correct"))
        ELSE Rejected(RelationError(NameOf(configs[at[1]]),
                                    configs[at[1]].relations[at[2]]))

----------------------------------------------------------------------------
(* setAliases, lines 40-78 *)

\* the default taken only when `order` is absent (data.order ?? DEFAULT_ORDER)
EffectiveOrder_NullishOnly(data) ==
    IF Has(data, "order") THEN data.order ELSE DEFAULT_ORDER

\* order: data.order || DEFAULT_ORDER
EffectiveOrder(data) ==
    IF Has(data, "order") /\ data.order # 0 THEN data.order ELSE DEFAULT_ORDER

setOrder(data) ==
    [f \in DOMAIN data \cup {"order"} |->
        IF f = "order" THEN EffectiveOrder(data) ELSE data[f]]

\* the comparator with its operands exchanged: ascending order
sortByOrder_Ascending(a, b) == a.order - b.order

sortByOrder(a, b) == b.order - a.order

\* Array.prototype.sort (stable, ES2019): x goes before the first element the
\* comparator puts after it
RECURSIVE InsertSorted(_, _, _)
InsertSorted(sorted, x, i) ==
    IF i > Len(sorted) THEN Append(sorted, x)
    ELSE IF sortByOrder(sorted[i], x) > 0
    THEN SubSeq(sorted, 1, i - 1) \o <<x>> \o SubSeq(sorted, i, Len(sorted))
    ELSE InsertSorted(sorted, x, i + 1)

RECURSIVE SortFrom(_, _, _)
SortFrom(list, i, sorted) ==
    IF i > Len(list) THEN sorted
    ELSE SortFrom(list, i + 1, InsertSorted(sorted, list[i], 1))

\* configurations.map(setOrder).sort(sortByOrder)
SortedConfigurations(configs) ==
    SortFrom([i \in 1..Len(configs) |-> setOrder(configs[i])], 1, <<>>)

EmptyMap == [k \in {} |-> <<>>]

\* the writes of lines 57-62 and 67-72 keeping a key that is already set
WriteKeys_KeepExisting(alias, list, name, map) ==
    [k \in DOMAIN alias \cup DOMAIN map |->
        IF k \in DOMAIN alias THEN alias[k] ELSE ResolvePath(list, name, map[k])]

\* Object.keys(map).forEach((key) => alias[key] = join(...).replace(...))
WriteKeys(alias, list, name, map) ==
    [k \in DOMAIN alias \cup DOMAIN map |->
        IF k \in DOMAIN map THEN ResolvePath(list, name, map[k]) ELSE alias[k]]

\* a map whose first key dereferences the absent result of allModules.find
LookupFails(list, config, field) ==
    /\ Has(config, field)
    /\ DOMAIN config[field] # {}
    /\ FindModule(list, NameOf(config)) = 0

\* lines 52-73 with the two blocks exchanged: aliases first, replacements second
WriteModule_AliasesFirst(alias, list, config) ==
    LET name == NameOf(config)
        afterAliases ==
            IF Has(config, "aliases") /\ ~LookupFails(list, config, "aliases")
            THEN WriteKeys(alias, list, name, config.aliases)
            ELSE alias
    IN  IF LookupFails(list, config, "aliases")
        THEN [alias |-> alias, error |-> <<TypeError(name, "aliases")>>]
        ELSE IF LookupFails(list, config, "replacements")
        THEN [alias |-> afterAliases, error |-> <<TypeError(name, "aliases")>>]
        ELSE [alias |-> IF Has(config, "replacements")
                        THEN WriteKeys(afterAliases, list, name, config.replacements)
                        ELSE afterAliases,
              error |-> <<>>]

\* lines 52-73 for one configuration: replacements first, aliases second
WriteModule(alias, list, config) ==
    LET name == NameOf(config)
        afterReplacements ==
            IF Has(config, "replacements") /\ ~LookupFails(list, config, "replacements")
            THEN WriteKeys(alias, list, name, config.replacements)
            ELSE alias
    IN  IF LookupFails(list, config, "replacements")
        THEN [alias |-> alias, error |-> <<TypeError(name, "aliases")>>]
        ELSE IF LookupFails(list, config, "aliases")
        THEN [alias |-> afterReplacements, error |-> <<TypeError(name, "aliases")>>]
        ELSE [alias |-> IF Has(config, "aliases")
                        THEN WriteKeys(afterReplacements, list, name, config.aliases)
                        ELSE afterReplacements,
              error |-> <<>>]

\* sortedConfigurations.forEach of lines 51-74; a throw ends the loop and
\* leaves what was written
RECURSIVE WriteAliases(_, _, _, _)
WriteAliases(sorted, list, i, alias) ==
    IF i > Len(sorted) THEN [alias |-> alias, error |-> <<>>]
    ELSE LET r == WriteModule(alias, list, sorted[i])
         IN  IF r.error # <<>> THEN r
             ELSE WriteAliases(sorted, list, i + 1, r.alias)

----------------------------------------------------------------------------
(* setPlugins, lines 88-113 *)

IsAlpha(c) ==
    c \in {"a", "b", "c", "d", "e", "f", "g", "h", "i", "j", "k", "l", "m", "n",
           "o", "p", "q", "r", "s", "t", "u", "v", "w", "x", "y", "z",
           "A", "B", "C", "D", "E", "F", "G", "H", "I", "J", "K", "L", "M", "N",
           "O", "P", "Q", "R", "S", "T", "U", "V", "W", "X", "Y", "Z"}

\* name.replace(/[^a-zA-Z]/g, '')
SanitizedName(name) == SelectSeq(name, IsAlpha)

DotTs == <<".", "t", "s">>

\* the argument of this.addPlugin with the two modes exchanged
PluginDescriptor_ModeSwapped(list, name, plugin) ==
    [src |-> ResolvePath(list, name, plugin.src) \o DotTs,
     fileName |-> PathJoin(<< <<"m", "o", "d", "u", "l", "e", "s">>,
                              SanitizedName(name), plugin.src \o DotTs >>),
     mode |-> IF plugin.ssr THEN "client" ELSE "server",
     module |-> name]

\* the argument of this.addPlugin, lines 101-107
PluginDescriptor(list, name, plugin) ==
    [src |-> ResolvePath(list, name, plugin.src) \o DotTs,
     fileName |-> PathJoin(<< <<"m", "o", "d", "u", "l", "e", "s">>,
                              SanitizedName(name), plugin.src \o DotTs >>),
     mode |-> IF plugin.ssr THEN "server" ELSE "client",
     module |-> name]

\* the calls the two nested maps of lines 90-109 make, in order: a call of
\* addPlugin, or a throw (of name.replace on an undefined name, line 93, or of
\* the lookup, line 97)
RECURSIVE PluginCalls(_, _, _, _)
PluginCalls(configs, list, i, j) ==
    IF i > Len(configs) THEN <<>>
    ELSE IF ~Has(configs[i], "plugins") THEN PluginCalls(configs, list, i + 1, 1)
    ELSE IF NameOf(configs[i]) = Undefined
    THEN << [throws |-> TRUE, error |-> TypeError(Undefined, "plugins")] >>
    ELSE IF j > Len(configs[i].plugins) THEN PluginCalls(configs, list, i + 1, 1)
    ELSE IF FindModule(list, NameOf(configs[i])) = 0
    THEN << [throws |-> TRUE, error |-> TypeError(NameOf(configs[i]), "plugins")] >>
    ELSE << [throws |-> FALSE,
             call |-> PluginDescriptor(list, NameOf(configs[i]), configs[i].plugins[j])] >>
         \o PluginCalls(configs, list, i, j + 1)

----------------------------------------------------------------------------
(* setCss, lines 123-143 *)

\* the pushes of lines 124-136 with a guarded lookup: a module that is not
\* found is skipped
RECURSIVE PushCss_SkipMissing(_, _, _, _, _)
PushCss_SkipMissing(configs, list, i, j, acc) ==
    IF i > Len(configs) THEN [css |-> acc, error |-> <<>>]
    ELSE IF ~(Has(configs[i], "css") /\ Truthy(NameOf(configs[i])))
            \/ j > Len(configs[i].css)
            \/ FindModule(list, NameOf(configs[i])) = 0
    THEN PushCss_SkipMissing(configs, list, i + 1, 1, acc)
    ELSE PushCss_SkipMissing(configs, list, i, j + 1,
             Append(acc, ResolvePath(list, NameOf(configs[i]), configs[i].css[j])))

\* the pushes of lines 124-136 over a list of configurations
RECURSIVE PushCss_Plain(_, _, _, _, _)
PushCss_Plain(configs, list, i, j, acc) ==
    IF i > Len(configs) THEN [css |-> acc, error |-> <<>>]
    ELSE IF ~(Has(configs[i], "css") /\ Truthy(NameOf(configs[i])))
            \/ j > Len(configs[i].css)
    THEN PushCss_Plain(configs, list, i + 1, 1, acc)
    ELSE IF FindModule(list, NameOf(configs[i])) = 0
    THEN [css |-> acc, error |-> <<TypeError(NameOf(configs[i]), "css")>>]
    ELSE PushCss_Plain(configs, list, i, j + 1,
             Append(acc, ResolvePath(list, NameOf(configs[i]), configs[i].css[j])))

\* the pushes made over the configurations sorted by `order`, as setAliases
\* sorts them
PushCss_SortedOrder(configs, list, i, j, acc) ==
    PushCss_Plain(SortedConfigurations(configs), list, i, j, acc)

\* the pushes of lines 124-136 undone when a lookup fails
PushCss_Rollback(configs, list, i, j, acc) ==
    LET r == PushCss_Plain(configs, list, i, j, acc)
    IN  IF r.error = <<>> THEN r ELSE [css |-> acc, error |-> r.error]

\* configurations.forEach(getCssPaths): the list after the pushes, and the
\* error of the lookup that ended them
RECURSIVE PushCss(_, _, _, _, _)
PushCss(configs, list, i, j, acc) ==
    IF i > Len(configs) THEN [css |-> acc, error |-> <<>>]
    ELSE IF ~(Has(configs[i], "css") /\ Truthy(NameOf(configs[i])))
            \/ j > Len(configs[i].css)
    THEN PushCss(configs, list, i + 1, 1, acc)
    ELSE IF FindModule(list, NameOf(configs[i])) = 0
    THEN [css |-> acc, error |-> <<TypeError(NameOf(configs[i]), "css")>>]
    ELSE PushCss(configs, list, i, j + 1,
                 Append(acc, ResolvePath(list, NameOf(configs[i]), configs[i].css[j])))

----------------------------------------------------------------------------
(* Inputs: the configuration lists, resolved modules and host states a run *)
(* starts from                                                             *)

NameA == <<"a">>
NameB == <<"b">>
\* two names that differ only in a non-alphabetic character
NameM1 == <<"m", "1">>
NameM2 == <<"m", "2">>
\* a name no configuration carries
NameC == <<"c">>

ResolvedA == [name |-> NameA, path |-> <<"/", "m", "/", "a", "/">>]
ResolvedB == [name |-> NameB, path |-> <<"/", "m", "/", "b">>]
ResolvedM1 == [name |-> NameM1, path |-> <<"/", "m", "/", "m", "1">>]
ResolvedM2 == [name |-> NameM2, path |-> <<"/", "m", "/", "m", "2", "/">>]

\* an empty record: a configuration field that is absent
Absent == [f \in {} |-> <<>>]

AliasStates ==
    { [defined |-> FALSE, map |-> EmptyMap],
      [defined |-> TRUE, map |-> EmptyMap],
      [defined |-> TRUE, map |-> ("@x" :> <<"/", "o", "l", "d">>)
                                 @@ ("@z" :> <<"/", "z">>)] }

OrderFields ==
    {Absent} \cup {[order |-> o] : o \in (0..MaxOrder) \cup {DEFAULT_ORDER + 1}}

AliasFields ==
    { [aliases |-> ("@x" :> <<"x">>)],
      [replacements |-> ("@x" :> <<"r", "/">>)],
      [replacements |-> ("@x" :> <<"r", "/">>), aliases |-> ("@x" :> <<"x">>)],
      [aliases |-> ("@x" :> <<"x">>) @@ ("@y" :> <<"y", "/">>)] }

RelationFields ==
    {Absent} \cup
    { [relations |-> r] :
        r \in { <<>>, <<NameA>>, <<NameB>>, <<NameC>>, << <<>> >>,
                <<NameB, NameC>>, <<NameC, NameB>>, << <<>>, NameC >> } }

PluginP == [src |-> <<"p">>, ssr |-> TRUE]
PluginQ == [src |-> <<"d", "/", "q">>, ssr |-> FALSE]

PluginFields ==
    { Absent, [plugins |-> <<>>], [plugins |-> <<PluginP>>],
      [plugins |-> <<PluginP, PluginQ>>] }

CssFields ==
    { Absent, [css |-> << <<"a", ".", "c", "s", "s">> >>],
      [css |-> << <<"a", ".", "c", "s", "s">>, <<"s", "/">> >>] }

\* lists of one module named first and, optionally, a second one named second
Lists(first, second) ==
    { <<m>> : m \in first } \cup { <<m, n>> : m \in first, n \in second }

Named(name, fields) == { [name |-> name] @@ f : f \in fields }

Combine(F, G) == { f @@ g : f \in F, g \in G }

Scenarios(configs, resolved, verbosity, cssStates, aliasStates) ==
    [configurations : configs, allModules : resolved, verbose : verbosity,
     css : cssStates, alias : aliasStates]

AliasConfigurations ==
    Lists(Named(NameA, Combine(OrderFields, AliasFields)),
          Named(NameB, Combine(OrderFields, AliasFields)))

AliasScenarios ==
    Scenarios(AliasConfigurations, { <<ResolvedA, ResolvedB>> }, {FALSE}, {<<>>},
              AliasStates)
    \cup Scenarios(AliasConfigurations, { <<ResolvedA>> }, {FALSE}, {<<>>},
                   { [defined |-> TRUE, map |-> EmptyMap] })

RelationScenarios ==
    Scenarios(Lists(Named(NameA, RelationFields),
                    Named(NameB, RelationFields) \cup RelationFields),
              { <<ResolvedA, ResolvedB>> },
              BOOLEAN, {<<>>}, { [defined |-> TRUE, map |-> EmptyMap] })

PluginScenarios ==
    Scenarios(Lists(Named(NameM1, PluginFields) \cup Named(NameA, PluginFields),
                    Named(NameM2, {Absent, [plugins |-> <<PluginQ>>]})
                        \cup {[plugins |-> <<PluginP>>]}),
              { <<ResolvedM1, ResolvedM2, ResolvedA>>, <<ResolvedM1>> },
              BOOLEAN, {<<>>}, { [defined |-> TRUE, map |-> EmptyMap] })

CssScenarios ==
    Scenarios(Lists(Named(NameA, CssFields) \cup Named(NameB, CssFields),
                    Named(NameB, CssFields) \cup Named(<<>>, CssFields) \cup CssFields),
              { <<ResolvedA, ResolvedB>>, <<ResolvedB>> },
              BOOLEAN, { <<>>, << <<"/", "o", ".", "c", "s", "s">> >> },
              { [defined |-> TRUE, map |-> EmptyMap] })

\* configurations that use several fields at once
MixedFields ==
    Combine(Combine({Absent, [relations |-> <<NameC>>]},
                    {Absent, [aliases |-> ("@x" :> <<"x">>)]}),
            Combine({Absent, [plugins |-> <<PluginP>>]},
                    {Absent, [css |-> << <<"a", ".", "c", "s", "s">> >>]}))

MixedScenarios ==
    Scenarios(Lists(Named(NameA, MixedFields), Named(NameB, MixedFields)),
              { <<ResolvedA, ResolvedB>>, <<ResolvedA>> },
              BOOLEAN, {<<>>}, { [defined |-> TRUE, map |-> EmptyMap] })

\* two resolved modules that use every field, listed in ascending `order`
OrderedConfigurations ==
    { << [name |-> NameA, order |-> 1, aliases |-> ("@x" :> <<"x", "/">>),
          plugins |-> <<PluginP>>, css |-> << <<"a", ".", "c", "s", "s">> >>],
         [name |-> NameB, order |-> 2, aliases |-> ("@x" :> <<"x">>),
          plugins |-> <<PluginQ>>,
          css |-> << <<"s", "/", "/">>, <<"b", ".", "c", "s", "s">> >>] >> }

OrderedScenarios ==
    Scenarios(OrderedConfigurations, { <<ResolvedA, ResolvedB>> }, BOOLEAN,
              { << <<"/", "o", ".", "c", "s", "s">> >> },
              { [defined |-> TRUE, map |-> EmptyMap] })

AllScenarios ==
    AliasScenarios \cup RelationScenarios \cup PluginScenarios
        \cup CssScenarios \cup MixedScenarios \cup OrderedScenarios

----------------------------------------------------------------------------
(* State machine *)

SubOperations == <<"relations", "aliases", "plugins", "css">>

Init ==
    \E s \in AllScenarios :
        /\ configurations = s.configurations
        /\ allModules = s.allModules
        /\ verbose = s.verbose
        /\ before = [css |-> s.css, alias |-> s.alias]
        /\ css = s.css
        /\ resolveAlias = s.alias
        /\ plugins = <<>>
        /\ extend = FALSE
        /\ sortedConfigurations = <<>>
        /\ transform = "none"
        /\ written = EmptyMap
        /\ promises = [i \in 1..4 |-> Pending]
        /\ all = [st |-> "pending", val |-> Message(""), remaining |-> 4,
                  values |-> [i \in 1..4 |-> ""]]
        /\ result = Pending
        /\ jobs = <<>>
        /\ pc = "relations"
        /\ logCalls = <<>>
        /\ console = <<>>
        /\ failed = <<>>

\* a sub-operation's promise settles: the rejection is noted in `failed`
Settle(i, p) ==
    /\ promises' = [promises EXCEPT ![i] = p]
    /\ failed' = IF p.st = "rejected" THEN Append(failed, SubOperations[i]) ELSE failed

\* line 155: the executor of checkModulesRelations runs inside the call
CheckModulesRelations ==
    /\ pc = "relations"
    /\ Settle(1, CheckModulesRelationsResult(configurations))
    /\ pc' = "aliases"
    /\ UNCHANGED <<inputs, css, resolveAlias, plugins, extend, sortedConfigurations,
                   transform, written, all, result, jobs, logCalls, console>>

\* setAliases sorting the list it was handed, in place
SetAliases_SortsInPlace ==
    /\ pc = "aliases"
    /\ configurations' = SortedConfigurations(configurations)
    /\ sortedConfigurations' = configurations'
    /\ \E hostThrows \in BOOLEAN :
          IF hostThrows
          THEN /\ Settle(2, Rejected(HostError("extendBuild")))
               /\ UNCHANGED <<extend, jobs>>
          ELSE /\ extend' = TRUE
               /\ jobs' = Append(jobs, [run |-> "setAliases", index |-> 2])
               /\ UNCHANGED <<promises, failed>>
    /\ pc' = "plugins"
    /\ UNCHANGED <<allModules, verbose, before, css, resolveAlias, plugins, transform,
                   written, all, result, logCalls, console>>

\* line 156: setAliases runs to its await (lines 41-48); the host's
\* extendBuild keeps the transform, or throws
SetAliases ==
    /\ pc = "aliases"
    /\ sortedConfigurations' = SortedConfigurations(configurations)
    /\ \E hostThrows \in BOOLEAN :
          IF hostThrows
          THEN /\ Settle(2, Rejected(HostError("extendBuild")))
               /\ UNCHANGED <<extend, jobs>>
          ELSE /\ extend' = TRUE
               /\ jobs' = Append(jobs, [run |-> "setAliases", index |-> 2])
               /\ UNCHANGED <<promises, failed>>
    /\ pc' = "plugins"
    /\ UNCHANGED <<inputs, css, resolveAlias, plugins, transform, written, all,
                   result, logCalls, console>>

\* the first call of PluginCalls that throws, under the host's outcomes: 0
\* when every call returns
RECURSIVE FirstThrow(_, _, _)
FirstThrow(calls, outcome, k) ==
    IF k > Len(calls) THEN 0
    ELSE IF calls[k].throws \/ outcome[k] = "throws" THEN k
    ELSE FirstThrow(calls, outcome, k + 1)

\* what the host holds of the k-th call: addPlugin returned, returned a
\* promise that is still pending, or threw
Registration(call, outcome) ==
    [call |-> call,
     st |-> CASE outcome = "returns" -> "registered"
              [] outcome = "promise" -> "pending"
              [] OTHER -> "threw"]

\* the elements of the array handed to the inner Promise.all, lines 89-110:
\* one array per configuration with `plugins`
PluginModules(configs) ==
    Cardinality({i \in 1..Len(configs) : Has(configs[i], "plugins")})

\* line 157: setPlugins runs to its await (lines 89-110); each addPlugin call
\* returns, returns a promise, or throws.  The inner Promise.all is handed
\* arrays, not the promises in them.
SetPlugins ==
    /\ pc = "plugins"
    /\ LET calls == PluginCalls(configurations, allModules, 1, 1)
       IN  \E outcome \in [1..Len(calls) -> {"returns", "promise", "throws"}] :
             LET stop == FirstThrow(calls, outcome, 1)
                 last == IF stop = 0 THEN Len(calls)
                         ELSE IF calls[stop].throws THEN stop - 1 ELSE stop
             IN  /\ plugins' = plugins \o
                        [k \in 1..last |-> Registration(calls[k].call, outcome[k])]
                 /\ IF stop = 0
                    THEN /\ jobs' = Append(jobs,
                                [run |-> IF PluginModules(configurations) = 0
                                         THEN "setPlugins" ELSE "innerAll",
                                 index |-> 3])
                         /\ UNCHANGED <<promises, failed>>
                    ELSE /\ Settle(3, Rejected(IF calls[stop].throws
                                               THEN calls[stop].error
                                               ELSE HostError("addPlugin")))
                         /\ UNCHANGED jobs
    /\ pc' = "css"
    /\ UNCHANGED <<inputs, css, resolveAlias, extend, sortedConfigurations, transform,
                   written, all, result, logCalls, console>>

\* line 158: the executor of setCss runs inside the call
SetCss ==
    /\ pc = "css"
    /\ LET r == PushCss(configurations, allModules, 1, 1, css)
       IN  /\ css' = r.css
           /\ Settle(4, IF r.error = <<>>
                        THEN Fulfilled(Message("All global css set"))
                        ELSE Rejected(r.error[1]))
    /\ pc' = "all"
    /\ UNCHANGED <<inputs, resolveAlias, plugins, extend, sortedConfigurations,
                   transform, written, all, result, jobs, logCalls, console>>

Reaction(i) == [run |-> "reaction", index |-> i]

\* the reaction jobs of the settled promises, the last promise first
RECURSIVE SettledReactions_Reversed(_, _)
SettledReactions_Reversed(ps, i) ==
    IF i > Len(ps) THEN <<>>
    ELSE SettledReactions_Reversed(ps, i + 1)
         \o (IF ps[i].st = "pending" THEN <<>> ELSE <<Reaction(i)>>)

\* the reaction jobs of the promises among `indices` that are settled
RECURSIVE SettledReactions(_, _)
SettledReactions(ps, i) ==
    IF i > Len(ps) THEN <<>>
    ELSE (IF ps[i].st = "pending" THEN <<>> ELSE <<Reaction(i)>>)
         \o SettledReactions(ps, i + 1)

\* line 154: Promise.all subscribes to the four promises in index order; the
\* settled ones queue their reactions at once.  prepareModules awaits.
PromiseAll ==
    /\ pc = "all"
    /\ jobs' = jobs \o SettledReactions(promises, 1)
    /\ pc' = "await"
    /\ UNCHANGED <<inputs, css, resolveAlias, plugins, extend, sortedConfigurations,
                   transform, written, promises, all, result, logCalls, console,
                   failed>>

\* the synchronous code has run and the head of the microtask queue is `run`
NextJob(run) == pc \in {"await", "done"} /\ jobs # <<>> /\ Head(jobs).run = run

\* lines 48, 77: setAliases resumes after its await and returns
ResumeSetAliases ==
    /\ NextJob("setAliases")
    /\ Settle(2, Fulfilled(Message("All aliases set")))
    /\ jobs' = Append(Tail(jobs), Reaction(2))
    /\ UNCHANGED <<inputs, css, resolveAlias, plugins, extend, sortedConfigurations,
                   transform, written, all, result, pc, logCalls, console>>

\* line 89: the inner Promise.all takes its elements (arrays) as values and
\* fulfils
InnerPromiseAll ==
    /\ NextJob("innerAll")
    /\ jobs' = Append(Tail(jobs), [run |-> "setPlugins", index |-> 3])
    /\ UNCHANGED <<inputs, css, resolveAlias, plugins, extend, sortedConfigurations,
                   transform, written, promises, all, result, pc, logCalls, console,
                   failed>>

\* lines 89, 112: setPlugins resumes after its await and returns
ResumeSetPlugins ==
    /\ NextJob("setPlugins")
    /\ Settle(3, Fulfilled(Message("All plugins set")))
    /\ jobs' = Append(Tail(jobs), Reaction(3))
    /\ UNCHANGED <<inputs, css, resolveAlias, plugins, extend, sortedConfigurations,
                   transform, written, all, result, pc, logCalls, console>>

AwaitJob == [run |-> "prepareModules", index |-> 0]

\* Promise.all's reaction with the values kept in the order of fulfilment
PromiseAllReaction_CompletionOrder ==
    /\ NextJob("reaction")
    /\ LET i == Head(jobs).index
           p == promises[i]
       IN  IF all.st # "pending"
           THEN /\ jobs' = Tail(jobs)
                /\ UNCHANGED all
           ELSE IF p.st = "rejected"
           THEN /\ all' = [all EXCEPT !.st = "rejected", !.val = p.val]
                /\ jobs' = Append(Tail(jobs), AwaitJob)
           ELSE /\ all' = [all EXCEPT !.remaining = @ - 1,
                                      !.values[5 - all.remaining] = p.val.kind,
                                      !.st = IF all.remaining = 1
                                             THEN "fulfilled" ELSE @]
                /\ jobs' = IF all.remaining = 1
                           THEN Append(Tail(jobs), AwaitJob) ELSE Tail(jobs)
    /\ UNCHANGED <<inputs, css, resolveAlias, plugins, extend, sortedConfigurations,
                   transform, written, promises, result, pc, logCalls, console,
                   failed>>

\* Promise.all's reaction to one settled promise: the first rejection rejects
\* it, the last fulfilment fulfils it with the values in index order
PromiseAllReaction ==
    /\ NextJob("reaction")
    /\ LET i == Head(jobs).index
           p == promises[i]
       IN  IF all.st # "pending"
           THEN /\ jobs' = Tail(jobs)
                /\ UNCHANGED all
           ELSE IF p.st = "rejected"
           THEN /\ all' = [all EXCEPT !.st = "rejected", !.val = p.val]
                /\ jobs' = Append(Tail(jobs), AwaitJob)
           ELSE /\ all' = [all EXCEPT !.remaining = @ - 1,
                                      !.values[i] = p.val.kind,
                                      !.st = IF all.remaining = 1
                                             THEN "fulfilled" ELSE @]
                /\ jobs' = IF all.remaining = 1
                           THEN Append(Tail(jobs), AwaitJob) ELSE Tail(jobs)
    /\ UNCHANGED <<inputs, css, resolveAlias, plugins, extend, sortedConfigurations,
                   transform, written, promises, result, pc, logCalls, console,
                   failed>>

\* log of helpers/log.js, lines 10-20, for an array of logs
LogOutput(header, logs) ==
    << [level |-> "info", text |-> "------------------------"],
       [level |-> "info", text |-> "-- " \o header \o " --"],
       [level |-> "info", text |-> "------------------------"] >>
    \o [k \in 1..Len(logs) |-> [level |-> "success", text |-> logs[k]]]

\* prepareModules resuming with the rejection caught: it logs what it has
ResumePrepareModules_LogsAnyway ==
    /\ NextJob("prepareModules")
    /\ jobs' = Tail(jobs)
    /\ pc' = "done"
    /\ result' = IF all.st = "rejected" THEN Rejected(all.val) ELSE Fulfilled(Message(""))
    /\ LET logs == SelectSeq(all.values, LAMBDA x : x # "")
       IN  IF verbose
           THEN /\ logCalls' = Append(logCalls,
                        [header |-> "Prepare modules", logs |-> logs])
                /\ console' = console \o LogOutput("Prepare modules", logs)
           ELSE UNCHANGED <<logCalls, console>>
    /\ UNCHANGED <<inputs, css, resolveAlias, plugins, extend, sortedConfigurations,
                   transform, written, promises, all, failed>>

\* lines 154-166: prepareModules resumes after its await: a rejection is
\* thrown out of it, otherwise it logs when verbose and returns
ResumePrepareModules ==
    /\ NextJob("prepareModules")
    /\ jobs' = Tail(jobs)
    /\ pc' = "done"
    /\ IF all.st = "rejected"
       THEN /\ result' = Rejected(all.val)
            /\ UNCHANGED <<logCalls, console>>
       ELSE /\ result' = Fulfilled(Message(""))
            /\ LET logs == SelectSeq(all.values, LAMBDA x : x # "")
               IN  IF verbose
                   THEN /\ logCalls' = Append(logCalls,
                                [header |-> "Prepare modules", logs |-> logs])
                        /\ console' = console \o LogOutput("Prepare modules", logs)
                   ELSE UNCHANGED <<logCalls, console>>
    /\ UNCHANGED <<inputs, css, resolveAlias, plugins, extend, sortedConfigurations,
                   transform, written, promises, all, failed>>

\* the host: a promise that addPlugin returned settles, after the synchronous
\* code of prepareModules has run
RegistrationSettles ==
    \E k \in 1..Len(plugins) :
        /\ pc \in {"await", "done"}
        /\ plugins[k].st = "pending"
        /\ \E st \in {"completed", "failed"} :
              plugins' = [plugins EXCEPT ![k].st = st]
        /\ UNCHANGED <<inputs, css, resolveAlias, extend, sortedConfigurations,
                       transform, written, promises, all, result, jobs, pc, logCalls,
                       console, failed>>

\* the host: the build runs the transform kept by extendBuild (lines 48-75) on
\* its build configuration, once prepareModules has settled and the microtask
\* queue is empty
BuildTransform ==
    /\ pc = "done"
    /\ jobs = <<>>
    /\ extend
    /\ transform = "none"
    /\ LET alias == IF resolveAlias.defined THEN resolveAlias.map ELSE EmptyMap
           r == WriteAliases(sortedConfigurations, allModules, 1, alias)
       IN  /\ written' = r.alias
           /\ resolveAlias' = IF resolveAlias.defined
                              THEN [resolveAlias EXCEPT !.map = r.alias]
                              ELSE resolveAlias
           /\ transform' = IF r.error = <<>> THEN "ok" ELSE "threw"
    /\ UNCHANGED <<inputs, css, plugins, extend, sortedConfigurations, promises, all,
                   result, jobs, pc, logCalls, console, failed>>

Next ==
    \/ CheckModulesRelations
    \/ SetAliases
    \/ SetPlugins
    \/ SetCss
    \/ PromiseAll
    \/ ResumeSetAliases
    \/ InnerPromiseAll
    \/ ResumeSetPlugins
    \/ PromiseAllReaction
    \/ ResumePrepareModules
    \/ RegistrationSettles
    \/ BuildTransform

Spec == Init /\ [][Next]_vars

----------------------------------------------------------------------------
(* Vocabulary of the properties *)

Indices == 1..Len(configurations)

DeclaresIn(config, field, key) == Has(config, field) /\ key \in DOMAIN config[field]

Declares(config, key) ==
    DeclaresIn(config, "replacements", key) \/ DeclaresIn(config, "aliases", key)

DeclaredKeys(configs) ==
    UNION { IF Has(configs[i], field) THEN DOMAIN configs[i][field] ELSE {} :
              i \in 1..Len(configs), field \in {"replacements", "aliases"} }

\* the path a module's `aliases` entry for the key resolves to
AliasPath(config, key) ==
    ResolvePath(allModules, NameOf(config), config.aliases[key])

\* the promise of prepareModules has settled
Settled == pc = "done"

\* the build transform ran to its end
TransformDone == transform = "ok"

\* some declared relation names a module that is not in the list
SomeRelationMissing ==
    \E i \in Indices :
        /\ Has(configurations[i], "relations")
        /\ \E j \in 1..Len(configurations[i].relations) :
              /\ configurations[i].relations[j] # <<>>
              /\ ~ModuleExists(configurations, configurations[i].relations[j])

----------------------------------------------------------------------------
(* C1 *)

\* C1, as stated: when two modules declare the same alias key with different
\* explicit orders, the mapping the build transform wrote holds, under that
\* key, the path of the module with the higher order.
C1_HigherOrderWins ==
    TransformDone =>
        \A i, j \in Indices : \A key \in DeclaredKeys(configurations) :
            LET a == configurations[i]
                b == configurations[j]
            IN  ( /\ DeclaresIn(a, "aliases", key) /\ DeclaresIn(b, "aliases", key)
                  /\ Has(a, "order") /\ Has(b, "order")
                  /\ a.order < b.order )
                => written[key] = AliasPath(b, key)

\* C1, amended: when two modules declare the same alias key with different
\* explicit orders, the mapping the build transform wrote holds, under that
\* key, the path of the module with the LOWER order, an explicit order of 0
\* counting as DEFAULT_ORDER (the module sorted last wins).
C1_LowerOrderWins ==
    TransformDone =>
        \A i, j \in Indices : \A key \in DeclaredKeys(configurations) :
            LET a == configurations[i]
                b == configurations[j]
                orderOf(c) == IF c.order = 0 THEN DEFAULT_ORDER ELSE c.order
            IN  ( /\ DeclaresIn(a, "aliases", key) /\ DeclaresIn(b, "aliases", key)
                  /\ Has(a, "order") /\ Has(b, "order")
                  /\ a.order # b.order
                  /\ orderOf(a) < orderOf(b) )
                => written[key] = AliasPath(a, key)

\* C1, witness: A (order 1) and B (order 2) both declare @x, the transform
\* ran, and @x points into A.
C1_Witness ==
    /\ TransformDone
    /\ Len(configurations) = 2
    /\ DeclaresIn(configurations[1], "aliases", "@x")
    /\ DeclaresIn(configurations[2], "aliases", "@x")
    /\ Has(configurations[1], "order") /\ configurations[1].order = 1
    /\ Has(configurations[2], "order") /\ configurations[2].order = 2
    /\ written["@x"] = <<"/", "m", "/", "a", "/", "x">>
    /\ written["@x"] # AliasPath(configurations[2], "@x")

----------------------------------------------------------------------------
(* C2 *)

\* every entry of every `relations` list is the name of a module of the list
EveryRelationNamed ==
    \A i \in Indices :
        Has(configurations[i], "relations") =>
            \A j \in 1..Len(configurations[i].relations) :
                ModuleExists(configurations, configurations[i].relations[j])

RelationsOf(config) == IF Has(config, "relations") THEN config.relations ELSE <<>>

\* a non-empty entry of module i's `relations` that names no module
MissingAt(i, j) ==
    /\ RelationsOf(configurations[i])[j] # <<>>
    /\ ~ModuleExists(configurations, RelationsOf(configurations[i])[j])

MissingIn(i) ==
    { j \in 1..Len(RelationsOf(configurations[i])) : MissingAt(i, j) }

\* the error for the first module with a missing relation and the first
\* missing relation of that module
FirstRelationError ==
    LET i == CHOOSE m \in Indices :
                 /\ MissingIn(m) # {}
                 /\ \A n \in 1..(m - 1) : MissingIn(n) = {}
        j == CHOOSE r \in MissingIn(i) : \A q \in MissingIn(i) : r <= q
    IN  RelationError(NameOf(configurations[i]), configurations[i].relations[j])

\* C2, as stated: validation succeeds with 'All relations correct' exactly
\* when every entry of every relations list names a module of the list.
C2_SucceedsIffEveryEntryNamed ==
    pc # "relations" =>
        (promises[1] = Fulfilled(Message("All relations correct")) <=> EveryRelationNamed)

\* C2, amended: validation succeeds with 'All relations correct' exactly when
\* every NON-EMPTY entry of every relations list names a module of the list
\* (empty entries are skipped); otherwise it fails with an error naming the
\* declaring module and the first missing relation.
C2_SucceedsIffEveryNonEmptyEntryNamed ==
    pc # "relations" =>
        IF SomeRelationMissing
        THEN promises[1] = Rejected(FirstRelationError)
        ELSE promises[1] = Fulfilled(Message("All relations correct"))

\* C2, witness: module b declares an empty relation and then the missing c;
\* validation failed naming b and c.
C2_Witness ==
    /\ pc # "relations"
    /\ Len(configurations) = 2
    /\ Has(configurations[2], "relations")
    /\ configurations[2].relations = << <<>>, NameC >>
    /\ promises[1] = Rejected(RelationError(NameB, NameC))

----------------------------------------------------------------------------
(* C3 *)

\* C3, as stated: setPlugins has produced 'All plugins set' only when no
\* registration it issued is still pending.
C3_ConfirmationAfterRegistrations ==
    promises[3].st = "fulfilled" =>
        \A k \in 1..Len(plugins) : plugins[k].st # "pending"

----------------------------------------------------------------------------
(* C4 *)

RegistrationFailed ==
    \E k \in 1..Len(plugins) : plugins[k].st \in {"failed", "threw"}

\* C4, as stated: in a run where a registration failed (addPlugin threw, or the
\* promise it returned rejected), setPlugins has not produced its confirmation
\* and prepareModules has not completed successfully.
C4_RegistrationFailurePropagates ==
    RegistrationFailed =>
        /\ promises[3].st # "fulfilled"
        /\ result.st # "fulfilled"

----------------------------------------------------------------------------
(* C5 *)

SubOperationIndex(name) == CHOOSE i \in 1..4 : SubOperations[i] = name

\* C5: once a sub-operation has failed (its promise rejected), the logging
\* collaborator is never invoked and prepareModules does not fulfil; when
\* prepareModules has settled it is rejected with the error of the
\* sub-operation that failed first.
C5_FirstFailureAborts ==
    failed # <<>> =>
        /\ logCalls = <<>> /\ console = <<>>
        /\ result.st # "fulfilled"
        /\ Settled => result = Rejected(promises[SubOperationIndex(Head(failed))].val)

\* C5, witness: verbose run in which plugin registration failed first and CSS
\* aggregation failed too; prepareModules is rejected with the plugin error.
C5_Witness ==
    /\ Settled
    /\ verbose
    /\ failed = <<"plugins", "css">>
    /\ promises[3].val # promises[4].val
    /\ result = Rejected(promises[3].val)

----------------------------------------------------------------------------
(* C6 *)

\* C6, as stated: when some relation names a nonexistent module,
\* prepareModules fails and, the build transform not having run, the CSS list,
\* the registered plugins and the alias mapping are what they were before the
\* call.
C6_NoMutationOnMissingRelation ==
    (Settled /\ SomeRelationMissing /\ transform = "none") =>
        /\ result.st = "rejected"
        /\ css = before.css
        /\ plugins = <<>>
        /\ resolveAlias = before.alias

\* C6, amended: when some relation names a nonexistent module, prepareModules
\* fails with the relation error and the alias mapping is what it was before
\* the call (the CSS list and the registered plugins are not protected: CSS
\* aggregation and plugin registration run in the same synchronous pass as
\* the validation).
C6_MissingRelationFails ==
    (Settled /\ SomeRelationMissing) =>
        /\ result = Rejected(FirstRelationError)
        /\ transform = "none" => resolveAlias = before.alias

\* C6, witness: a relation is missing, prepareModules failed, and the CSS list
\* and the plugin registrations have grown.
C6_Witness ==
    /\ Settled
    /\ SomeRelationMissing
    /\ result.st = "rejected" /\ result.val.kind = "RelationError"
    /\ css # before.css
    /\ plugins # <<>>

----------------------------------------------------------------------------
(* C7 *)

NonEmpty(config, field) == Has(config, field) /\ DOMAIN config[field] # {}

NotResolved(config) == FindModule(allModules, NameOf(config)) = 0

\* C7, as stated: when a module that declares at least one replacements,
\* aliases, plugins or css entry has no record in allModules, prepareModules
\* does not complete successfully.
C7_LookupFailureAborts ==
    Settled =>
        \A i \in Indices :
            LET c == configurations[i]
            IN  ( /\ NotResolved(c)
                  /\ \/ NonEmpty(c, "replacements") \/ NonEmpty(c, "aliases")
                     \/ NonEmpty(c, "plugins") \/ NonEmpty(c, "css") )
                => result.st = "rejected"

\* C7, amended: when a module that declares at least one plugins entry, or
\* that has a non-empty name and declares at least one css entry, has no
\* record in allModules, prepareModules fails; the lookup of a module that
\* declares replacements or aliases is made by the build transform, which
\* throws when the host runs it, whatever prepareModules returned.
C7_PluginAndCssLookupFailureAborts ==
    /\ Settled =>
          \A i \in Indices :
              LET c == configurations[i]
              IN  ( /\ NotResolved(c)
                    /\ \/ NonEmpty(c, "plugins")
                       \/ Truthy(NameOf(c)) /\ NonEmpty(c, "css") )
                  => result.st = "rejected"
    /\ transform # "none" =>
          ( transform = "threw" <=>
              \E i \in Indices :
                  LET c == configurations[i]
                  IN  /\ NotResolved(c)
                      /\ NonEmpty(c, "replacements") \/ NonEmpty(c, "aliases") )

\* C7, witness: module b declares a css entry, has no record in allModules,
\* and prepareModules failed with the lookup fault of the CSS aggregator.
C7_Witness ==
    /\ Settled
    /\ \E i \in Indices :
          /\ NotResolved(configurations[i])
          /\ NonEmpty(configurations[i], "css")
          /\ ~Has(configurations[i], "plugins")
          /\ result = Rejected(TypeError(NameOf(configurations[i]), "css"))

----------------------------------------------------------------------------
(* C8 *)

\* C8, as stated: after the build transform has run, resolve.alias of the
\* build configuration holds every key declared in a module's replacements or
\* aliases, whatever resolve.alias was before (unset included).
C8_MappingHoldsEveryDeclaredKey ==
    TransformDone =>
        /\ resolveAlias.defined
        /\ DeclaredKeys(configurations) \subseteq DOMAIN resolveAlias.map

----------------------------------------------------------------------------
(* C9 *)

\* the last position of the processing sequence that declares the key
LastDeclaring(key) ==
    CHOOSE p \in 1..Len(sortedConfigurations) :
        /\ Declares(sortedConfigurations[p], key)
        /\ \A q \in (p + 1)..Len(sortedConfigurations) :
               ~Declares(sortedConfigurations[q], key)

\* the value a module leaves under the key
DeclaredPath(config, key) ==
    ResolvePath(allModules, NameOf(config),
                IF DeclaresIn(config, "aliases", key)
                THEN config.aliases[key] ELSE config.replacements[key])

\* C9: the processing sequence is descending in `order`, and when the build
\* transform has run every declared key holds the value of the last module of
\* the sequence that declares it (so, of two modules with different orders,
\* the one with the lower order).
C9_LastInDescendingSequenceWins ==
    /\ \A p, q \in 1..Len(sortedConfigurations) :
          p < q => sortedConfigurations[p].order >= sortedConfigurations[q].order
    /\ TransformDone =>
          \A key \in DeclaredKeys(configurations) :
              written[key] = DeclaredPath(sortedConfigurations[LastDeclaring(key)], key)

\* C9, witness: b (order 1001) is first in the list and a (order 2) second in
\* the sequence; both declare @x and @x holds a's path, not b's.
C9_Witness ==
    /\ TransformDone
    /\ Len(sortedConfigurations) = 2
    /\ sortedConfigurations[1].name = NameB /\ sortedConfigurations[1].order = DEFAULT_ORDER + 1
    /\ sortedConfigurations[2].name = NameA /\ sortedConfigurations[2].order = 2
    /\ Declares(sortedConfigurations[1], "@x")
    /\ Declares(sortedConfigurations[2], "@x")
    /\ written["@x"] = DeclaredPath(sortedConfigurations[2], "@x")
    /\ written["@x"] # DeclaredPath(sortedConfigurations[1], "@x")

----------------------------------------------------------------------------
(* C10 *)

\* the position of a configuration in the processing sequence
Position(config) ==
    CHOOSE p \in 1..Len(sortedConfigurations) : sortedConfigurations[p] = setOrder(config)

\* C10, as stated: a module without `order` is processed before every module
\* with an explicit order below DEFAULT_ORDER and after every module with an
\* explicit order above it.
C10_NoOrderSortsAsDefault ==
    Len(sortedConfigurations) = Len(configurations) =>
        \A i, j \in Indices :
            LET c == configurations[i]
                d == configurations[j]
            IN  (~Has(c, "order") /\ Has(d, "order") /\ NameOf(c) # NameOf(d)) =>
                    /\ d.order < DEFAULT_ORDER => Position(c) < Position(d)
                    /\ d.order > DEFAULT_ORDER => Position(d) < Position(c)

----------------------------------------------------------------------------
(* C11 *)

\* the resolved css paths of one module, in their declared order; nothing for
\* a module without `css` or without a name
CssOf(config) ==
    IF Has(config, "css") /\ Truthy(NameOf(config))
    THEN [k \in 1..Len(config.css) |->
            ResolvePath(allModules, NameOf(config), config.css[k])]
    ELSE <<>>

\* the paths of the first n modules of the configuration list, in list order
RECURSIVE CssOfFirst(_)
CssOfFirst(n) ==
    IF n = 0 THEN <<>> ELSE CssOfFirst(n - 1) \o CssOf(configurations[n])

\* C11: after a successful CSS aggregation the CSS list is its previous content
\* followed by each module's resolved css paths, module by module in the order
\* of the configuration list and path by path in declared order.
C11_CssAppendedInListOrder ==
    promises[4].st = "fulfilled" =>
        css = before.css \o CssOfFirst(Len(configurations))

\* C11, witness: a (order 1) is listed before b (order 2); the list held
\* /o.css and now holds a's path and then b's two paths after it.
C11_Witness ==
    /\ promises[4].st = "fulfilled"
    /\ configurations \in OrderedConfigurations
    /\ css = << <<"/", "o", ".", "c", "s", "s">>,
                <<"/", "m", "/", "a", "/", "a", ".", "c", "s", "s">>,
                <<"/", "m", "/", "b", "/", "s">>,
                <<"/", "m", "/", "b", "/", "b", ".", "c", "s", "s">> >>

----------------------------------------------------------------------------
(* C12 *)

PluginsOf(config) == IF Has(config, "plugins") THEN config.plugins ELSE <<>>

\* <<i, j>> for every plugin descriptor j of every module i, in list order
RECURSIVE DescriptorsOfFirst(_)
DescriptorsOfFirst(n) ==
    IF n = 0 THEN <<>>
    ELSE DescriptorsOfFirst(n - 1)
         \o [j \in 1..Len(PluginsOf(configurations[n])) |-> <<n, j>>]

\* "modules/<the letters of the name>/"
Namespace(name) ==
    <<"m", "o", "d", "u", "l", "e", "s", "/">> \o SelectSeq(name, IsAlpha) \o <<"/">>

StartsWith(s, prefix) ==
    Len(s) >= Len(prefix) /\ SubSeq(s, 1, Len(prefix)) = prefix

\* the registrations are, one for one and in order, the plugin descriptors of
\* the modules: mode by `ssr`, file name under the module's namespace
OneRegistrationPerDescriptor ==
    LET descriptors == DescriptorsOfFirst(Len(configurations))
    IN  /\ Len(plugins) = Len(descriptors)
        /\ \A k \in 1..Len(descriptors) :
              LET config == configurations[descriptors[k][1]]
                  plugin == config.plugins[descriptors[k][2]]
                  call == plugins[k].call
              IN  /\ call.module = NameOf(config)
                  /\ call.mode = IF plugin.ssr THEN "server" ELSE "client"
                  /\ StartsWith(call.fileName, Namespace(NameOf(config)))

SetPluginsCalled == pc \notin {"relations", "aliases", "plugins"}

----------------------------------------------------------------------------
(* C13 *)

FourMessages ==
    << "All relations correct", "All aliases set", "All plugins set",
       "All global css set" >>

AllFourSucceeded == \A i \in 1..4 : promises[i].st = "fulfilled"

\* C13: without `verbose` the log helper is never invoked and nothing is
\* printed; with `verbose`, once prepareModules has settled with its four
\* sub-operations fulfilled, the helper has been invoked exactly once, with the
\* header 'Prepare modules' and the four messages in the order relations,
\* aliases, plugins, css.
C13_LogOnceWhenVerbose ==
    /\ ~verbose => logCalls = <<>> /\ console = <<>>
    /\ (verbose /\ Settled /\ AllFourSucceeded) =>
          logCalls = << [header |-> "Prepare modules", logs |-> FourMessages] >>
    /\ Len(logCalls) <= 1

\* C13, witness: a verbose run that succeeded and printed the three header
\* lines and the four messages.
C13_Witness ==
    /\ verbose /\ Settled /\ AllFourSucceeded
    /\ Len(logCalls) = 1
    /\ Len(logCalls[1].logs) = 4
    /\ Len(console) = 7
    /\ console[4].text = "All relations correct"
    /\ console[7].text = "All global css set"

----------------------------------------------------------------------------
(* C14 *)

NoTrailingSeparator(p) == p = <<>> \/ p[Len(p)] # "/"

\* the entries setCss appended
AppendedCss == SubSeq(css, Len(before.css) + 1, Len(css))

\* C14: every path the transform wrote under a declared key, and every path
\* setCss appended, ends without a separator; root '/mods/a/' and fragment
\* 'styles/' give '/mods/a/styles'.
C14_NoTrailingSeparator ==
    /\ \A key \in DeclaredKeys(configurations) \cap DOMAIN written :
          NoTrailingSeparator(written[key])
    /\ \A k \in 1..Len(AppendedCss) : NoTrailingSeparator(AppendedCss[k])
    /\ ResolvePath(<< [name |-> NameA,
                       path |-> <<"/", "m", "o", "d", "s", "/", "a", "/">>] >>,
                   NameA, <<"s", "t", "y", "l", "e", "s", "/">>)
          = <<"/", "m", "o", "d", "s", "/", "a", "/", "s", "t", "y", "l", "e", "s">>

\* C14, witness: root '/m/a/' with the alias fragment 'x/' and root '/m/b' with
\* the css fragment 's//' were written as '/m/a/x' and '/m/b/s'.
C14_Witness ==
    /\ configurations \in OrderedConfigurations
    /\ TransformDone
    /\ written["@x"] = <<"/", "m", "/", "a", "/", "x">>
    /\ Len(AppendedCss) = 3
    /\ AppendedCss[2] = <<"/", "m", "/", "b", "/", "s">>

----------------------------------------------------------------------------
(* C15 *)

\* C15: no step changes the configuration list (its element order, its
\* `order` fields) or allModules; the css list changes only in setCss, the
\* registrations are issued only in setPlugins, and the alias mapping is
\* written only by the build transform, which changes neither of the other two.
C15_Frame ==
    [][ /\ configurations' = configurations
        /\ allModules' = allModules
        /\ css' # css => pc = "css"
        /\ Len(plugins') # Len(plugins) => pc = "plugins"
        /\ (resolveAlias' # resolveAlias \/ written' # written) =>
              /\ transform = "none" /\ transform' # "none"
              /\ css' = css /\ plugins' = plugins
      ]_vars

\* C15, witness: b (order 2) was processed before a (order 1), aliases, plugins
\* and css were written, and the list still reads a, b.
C15_Witness ==
    /\ configurations \in OrderedConfigurations
    /\ TransformDone
    /\ NameOf(sortedConfigurations[1]) = NameB
    /\ NameOf(configurations[1]) = NameA
    /\ configurations[1].order = 1
    /\ Len(plugins) = 2
    /\ Len(css) = 4
    /\ DOMAIN written = {"@x"}

----------------------------------------------------------------------------
(* C16 *)

\* the module declares css paths under a name allModules does not hold
CssUnresolved(config) ==
    /\ Has(config, "css") /\ Truthy(NameOf(config))
    /\ config.css # <<>>
    /\ FindModule(allModules, NameOf(config)) = 0

FirstCssUnresolved ==
    CHOOSE k \in Indices :
        /\ CssUnresolved(configurations[k])
        /\ \A m \in 1..(k - 1) : ~CssUnresolved(configurations[m])

CssFailed == promises[4].st = "rejected"

\* C16: once the CSS aggregation has failed at the lookup of the module at
\* position k, the css list is the previous content followed by the paths of
\* the modules before k, in every later state, and prepareModules settles
\* rejected; from then on no step removes or alters a registration that was
\* issued.
C16_NoRollback ==
    /\ [](CssFailed =>
            /\ css = before.css \o CssOfFirst(FirstCssUnresolved - 1)
            /\ Settled => result.st = "rejected")
    /\ [][CssFailed =>
            /\ css' = css
            /\ Len(plugins') = Len(plugins)
            /\ \A k \in 1..Len(plugins) : plugins'[k].call = plugins[k].call]_vars

\* C16, witness: a is resolved and b is not; prepareModules has failed, and the
\* css path and the plugin of a are still there.
C16_Witness ==
    /\ Settled /\ result.st = "rejected"
    /\ CssFailed /\ promises[4].val = TypeError(NameB, "css")
    /\ FirstCssUnresolved = 2
    /\ css = << <<"/", "m", "/", "a", "/", "a", ".", "c", "s", "s">> >>
    /\ Len(plugins) = 1 /\ plugins[1].st = "registered"
    /\ plugins[1].call.module = NameA

----------------------------------------------------------------------------
(* C17 *)

\* the calls of addPlugin that returned (a value or a promise)
Registered == { k \in 1..Len(plugins) : plugins[k].st # "threw" }

\* C17: two plugin descriptors of modules with different names are never
\* registered under the same fileName.
C17_DistinctModulesDistinctFileNames ==
    \A k, l \in Registered :
        plugins[k].call.module # plugins[l].call.module =>
            plugins[k].call.fileName # plugins[l].call.fileName

----------------------------------------------------------------------------
(* C18 *)

RelationsFailed == promises[1].st = "rejected"

\* C18: when the relation validation has failed and another sub-operation has
\* failed too, the error prepareModules rejects with is the relation error.
C18_RelationErrorSurfaces ==
    (Settled /\ RelationsFailed /\ Len(failed) >= 2) =>
        /\ result = Rejected(promises[1].val)
        /\ result.val.kind = "RelationError"

\* C18, witness: relations, plugins and css have all failed, and the error of
\* prepareModules names the missing relation c.
C18_Witness ==
    /\ Settled
    /\ failed = <<"relations", "plugins", "css">>
    /\ result.st = "rejected"
    /\ result.val.kind = "RelationError"
    /\ result.val.relation = NameC

----------------------------------------------------------------------------
(* C19 *)

\* an explicit positive order below DEFAULT_ORDER
PositiveBelowDefault(config) ==
    Has(config, "order") /\ config.order > 0 /\ config.order < DEFAULT_ORDER

ExplicitZero(config) == Has(config, "order") /\ config.order = 0

\* C19: a module with the explicit order 0 is in the processing sequence with
\* the order DEFAULT_ORDER, before every module with an explicit positive order
\* below DEFAULT_ORDER; when the build transform has run, a key both declare
\* does not hold the value of the order-0 module but that of the last module
\* declaring it.
C19_ZeroOrderSortsAsDefault ==
    Len(sortedConfigurations) = Len(configurations) =>
        \A i, j \in Indices :
            LET c == configurations[i]
                d == configurations[j]
            IN  (ExplicitZero(c) /\ PositiveBelowDefault(d)) =>
                    /\ sortedConfigurations[Position(c)].order = DEFAULT_ORDER
                    /\ Position(c) < Position(d)
                    /\ TransformDone =>
                          \A key \in DeclaredKeys(<<c>>) \cap DeclaredKeys(<<d>>) :
                              /\ LastDeclaring(key) # Position(c)
                              /\ written[key] =
                                    DeclaredPath(sortedConfigurations[LastDeclaring(key)],
                                                 key)

\* C19, witness: a (order 1) is listed before b (order 0); b was processed
\* first, both declare @x, and @x holds a's path.
C19_Witness ==
    /\ TransformDone
    /\ Len(configurations) = 2
    /\ PositiveBelowDefault(configurations[1])
    /\ ExplicitZero(configurations[2])
    /\ NameOf(sortedConfigurations[1]) = NameB
    /\ sortedConfigurations[1].order = DEFAULT_ORDER
    /\ Declares(configurations[1], "@x") /\ Declares(configurations[2], "@x")
    /\ written["@x"] = DeclaredPath(configurations[1], "@x")
    /\ written["@x"] # DeclaredPath(configurations[2], "@x")

----------------------------------------------------------------------------
(* C20 *)

\* the path a module's `replacements` entry for the key resolves to
ReplacementPath(config, key) ==
    ResolvePath(allModules, NameOf(config), config.replacements[key])

\* C20: when the build transform has run, a key that the last module declaring
\* it maps in both `replacements` and `aliases` holds the path of its `aliases`
\* entry.
C20_AliasesOverrideReplacements ==
    TransformDone =>
        \A i \in Indices : \A key \in DeclaredKeys(configurations) :
            LET c == configurations[i]
            IN  ( /\ DeclaresIn(c, "replacements", key)
                  /\ DeclaresIn(c, "aliases", key)
                  /\ Position(c) = LastDeclaring(key) )
                => written[key] = AliasPath(c, key)

\* C20, witness: a maps @x to 'r/' in replacements and to 'x' in aliases, and
\* @x holds /m/a/x, not /m/a/r.
C20_Witness ==
    /\ TransformDone
    /\ Len(configurations) = 1
    /\ DeclaresIn(configurations[1], "replacements", "@x")
    /\ DeclaresIn(configurations[1], "aliases", "@x")
    /\ written["@x"] = <<"/", "m", "/", "a", "/", "x">>
    /\ ReplacementPath(configurations[1], "@x") = <<"/", "m", "/", "a", "/", "r">>

====
